---- MODULE Spec2Model ----
(***************************************************************************)
(* A model of EDA/app/app.py: the module-level generators and constants,   *)
(* and generate_image, one action per statement group, run by two          *)
(* invocations that are either two threads of one process or the first     *)
(* threads of two separately started processes.                            *)
(*                                                                         *)
(* Numbers.  Reals are modelled exactly: gal_q, g_1, g_2 are rationals     *)
(* [num, den] kept in lowest terms, pixel values are integers, and snr is  *)
(* the pair [sumsq, noise] denoting sqrt(sumsq) / noise (noise = 0 is the  *)
(* IEEE infinity numpy returns for a division by zero).  gal_beta is one   *)
(* of a few named angles whose doubled angle has rational cosine and sine. *)
(*                                                                         *)
(* Library calls.  galsim and numpy are outside the repository.  Their     *)
(* renderer is modelled as a fixed function that is linear in the flux of  *)
(* the profile drawn; their generators as a stream indexed by (seed,       *)
(* position); their argument checks as documented where documented and as  *)
(* a nondeterministic choice (raise or go on) where not.                   *)
(***************************************************************************)
EXTENDS Integers, Sequences, FiniteSets, TLC

\* ------------------------------------------------------------------ bounds

\* side of the pixel grid of the model (the program's grid is 64 x 64)
image_size == 2
\* calls of generate_image started in one behaviour
MaxCalls == 3
\* number of distinct seeds the operating system's entropy can hand out
NumEntropy == 2

\* ------------------------------------------------------- module constants

random_seed == 1314662
psf_beta == 2

Invocations == {1, 2}
Procs == {1, 2}
Pixels == (1 .. image_size) \X (1 .. image_size)
NPixels == image_size * image_size
Entropy == 0 .. (NumEntropy - 1)
Unbound == [unbound |-> TRUE]

\* ---------------------------------------------------------------- rationals

Abs(x) == IF x < 0 THEN -x ELSE x

RECURSIVE Gcd(_, _)
Gcd(a, b) == IF b = 0 THEN a ELSE Gcd(b, a % b)

\* lowest terms, positive denominator
Norm(r) ==
    LET g == Gcd(Abs(r.num), Abs(r.den))
        s == IF r.den < 0 THEN -1 ELSE 1
    IN  IF r.num = 0 THEN [num |-> 0, den |-> 1]
        ELSE [num |-> s * (r.num \div g), den |-> s * (r.den \div g)]

Rat(n, d) == Norm([num |-> n, den |-> d])
One == Rat(1, 1)
RAdd(a, b) == Rat(a.num * b.den + b.num * a.den, a.den * b.den)
RSub(a, b) == Rat(a.num * b.den - b.num * a.den, a.den * b.den)
RMul(a, b) == Rat(a.num * b.num, a.den * b.den)
RDiv(a, b) == Rat(a.num * b.den, a.den * b.num)
RLeq(a, b) == a.num * b.den <= b.num * a.den
RLess(a, b) == a.num * b.den < b.num * a.den
Zero == Rat(0, 1)

\* ------------------------------------------------------------------ angles

\* np.cos(2 * gal_beta) and np.sin(2 * gal_beta) on the angles of the model
Angles == {"atan(4/3)/2", "pi/2"}

Cos2(beta) ==
    CASE beta = "atan(4/3)/2" -> Rat(3, 5)
      [] beta = "pi/2" -> Rat(-1, 1)

Sin2(beta) ==
    CASE beta = "atan(4/3)/2" -> Rat(4, 5)
      [] beta = "pi/2" -> Zero

\* ------------------------------------------------------------------ inputs

Fields == {"psf_re", "bulge_re", "bulge_n", "gal_q", "gal_beta", "noise", "gal_flux"}

\* the sliders' defaults (lines 16-36), each taken as the unit of its parameter:
\* gal_q 0.6 stands as 1/2, gal_beta 3.14 / 2 as pi/2
Defaults ==
    [psf_re |-> 1, bulge_re |-> 1, bulge_n |-> 1, gal_q |-> Rat(1, 2),
     gal_beta |-> "pi/2", noise |-> 1, gal_flux |-> 1]

\* the other values a caller may pass for each parameter, in and out of domain
Alt(f) ==
    CASE f = "psf_re" -> {0, 2}
      [] f = "bulge_re" -> {0}
      [] f = "bulge_n" -> {0}
      [] f = "gal_q" -> {Rat(0, 1), Rat(1, 1), Rat(2, 1)}
      [] f = "gal_beta" -> {"atan(4/3)/2"}
      [] f = "noise" -> {-1, 0, 2}
      [] f = "gal_flux" -> {0, 2}

\* the defaults, every change of one parameter, and every (gal_q, gal_beta)
Inputs ==
    {Defaults}
    \cup {[Defaults EXCEPT ![f] = v] : <<f, v>> \in UNION {{f} \X Alt(f) : f \in Fields}}
    \cup {[Defaults EXCEPT !.gal_q = q, !.gal_beta = b] :
            <<q, b>> \in Alt("gal_q") \X Alt("gal_beta")}

\* ------------------------------------------------------------------- state

VARIABLES
    layout,     \* "threads": both invocations in process 1; "processes": one each
    rng,        \* rng[p]: the module-level galsim.BaseDeviate of process p
    np_state,   \* np_state[p]: numpy's global RandomState of process p
    ncalls,     \* calls started so far
    pc,         \* pc[i]: the line invocation i is about to run
    args,       \* args[i]: the parameters of invocation i's call
    frame,      \* frame[i]: the local variables of invocation i
    heap,       \* heap[i]: the arrays invocation i has allocated, by reference
    err         \* err[i]: the exception invocation i's call raised

vars == <<layout, rng, np_state, ncalls, pc, args, frame, heap, err>>

ProcOf(i) == IF layout = "threads" THEN 1 ELSE i
\* the processes running under a layout
Running(l) == IF l = "threads" THEN {1} ELSE Procs

\* ------------------------------------------------------------- generators

BaseDeviate(seed) == [seed |-> seed, count |-> 0]
Advance(dev, n) == [dev EXCEPT !.count = @ + n]
\* the k-th next value of a generator, one of three equally likely outcomes
Uniform(dev, k) == (dev.seed + dev.count + k) % 3

Idx(px) == (px[1] - 1) * image_size + px[2]

\* galsim.PoissonNoise(rng=None, sky_level=0.0): with no rng given galsim builds
\* a new BaseDeviate seeded from the operating system's entropy
PoissonNoiseShared(module_rng, entropy) == module_rng
PoissonNoise(module_rng, entropy) == BaseDeviate(entropy)

\* one Poisson draw of the given mean; galsim clips negative means to zero
PoissonSample(mean, u) == IF mean <= 0 THEN 0 ELSE mean + u - 1

\* image.addNoise(noise): every pixel replaced by a draw with its value as mean
AddNoise(array, dev) == [px \in Pixels |-> PoissonSample(array[px], Uniform(dev, Idx(px)))]

\* np.random.normal(loc, scale, n) on the global state: n draws of mean loc
\* and standard deviation scale
Normal(state, loc, scale) ==
    [px \in Pixels |-> loc + scale * (Uniform(state, Idx(px)) - 1)]

\* ---------------------------------------------------------------- profiles

\* line 40
AWithoutDenominator(gal_q) == RSub(One, gal_q)
A(gal_q) == RDiv(RSub(One, gal_q), RAdd(gal_q, One))
\* lines 41-42
G1(gal_q, gal_beta) == RMul(A(gal_q), Cos2(gal_beta))
G2(gal_q, gal_beta) == RMul(A(gal_q), Sin2(gal_beta))

Sersic(n, half_light_radius) ==
    [kind |-> "Sersic", n |-> n, half_light_radius |-> half_light_radius,
     flux |-> 1, g1 |-> Zero, g2 |-> Zero]
WithFluxIgnored(obj, flux) == obj
WithFlux(obj, flux) == [obj EXCEPT !.flux = flux]
ShearBy(obj, g1, g2) == [obj EXCEPT !.g1 = g1, !.g2 = g2]
Moffat(beta, flux, fwhm) == [kind |-> "Moffat", beta |-> beta, flux |-> flux, fwhm |-> fwhm]
Convolve(a, b) == [kind |-> "Convolve", first |-> a, second |-> b]

\* |g|^2 of a shear, against 1
ShearNormSq(g1, g2) == RAdd(RMul(g1, g1), RMul(g2, g2))

\* galsim raises GalSimRangeError for a Sersic index outside [0.3, 6.2] and for
\* a shear of magnitude above 1
MustReject(p, g1, g2) ==
    \/ p.bulge_n <= 0
    \/ RLess(One, ShearNormSq(g1, g2))
\* arguments galsim documents no behaviour for: it may raise or go on
MayReject(p, g1, g2) ==
    \/ p.bulge_re <= 0
    \/ p.psf_re <= 0
    \/ ShearNormSq(g1, g2) = One

RECURSIVE Flux(_)
Flux(obj) ==
    IF obj.kind = "Convolve" THEN Flux(obj.first) * Flux(obj.second) ELSE obj.flux

\* a number standing for the shape of a profile, flux apart
RECURSIVE ShapeCode(_)
ShapeCode(obj) ==
    CASE obj.kind = "Sersic" ->
            obj.n + 2 * obj.half_light_radius
            + obj.g1.num + 2 * obj.g1.den + 3 * obj.g2.num + 5 * obj.g2.den
      [] obj.kind = "Moffat" -> 7 * obj.fwhm + obj.beta
      [] obj.kind = "Convolve" -> ShapeCode(obj.first) + 3 * ShapeCode(obj.second)

\* obj.drawImage(image): each pixel the profile's flux over the pixel's
\* footprint, which is the flux times a weight fixed by the shape
DrawImage(obj) ==
    [px \in Pixels |-> Flux(obj) * (1 + ((ShapeCode(obj) + px[1] + 2 * px[2]) % 3))]

\* ------------------------------------------------------------------- arrays

SumOver(array) ==
    LET RECURSIVE S(_)
        S(ps) == IF ps = {} THEN 0
                 ELSE LET px == CHOOSE x \in ps : TRUE IN array[px] + S(ps \ {px})
    IN  S(Pixels)

Squared(array) == [px \in Pixels |-> array[px] * array[px]]
Plus(a, b) == [px \in Pixels |-> a[px] + b[px]]

\* a new array on the heap: the heap with it, and its reference
Alloc(h, array) == [heap |-> Append(h, array), ref |-> Len(h) + 1]

\* line 51: copy.deepcopy(image.array)
Alias(h, ref) == [heap |-> h, ref |-> ref]
Deepcopy(h, ref) == Alloc(h, h[ref])

\* line 54: np.sqrt((image.array ** 2).sum()) / noise
SnrOfSum(array, noise) == [sumsq |-> SumOver(array) * SumOver(array), noise |-> noise]
SignalToNoise(array, noise) == [sumsq |-> SumOver(Squared(array)), noise |-> noise]

\* line 59: the array the background field is added to
NoiselessBase(f) == f.image_nonoise
NoisyBase(f) == f.image

\* line 63: the profile the PSF image is drawn from
ConvolvedSource(f) == f.final
PsfSource(f) == f.psf

\* --------------------------------------------------------------------- Init

EmptyFrame ==
    [g_1 |-> Unbound, g_2 |-> Unbound, gal |-> Unbound, psf |-> Unbound,
     final |-> Unbound, image |-> Unbound, image_nonoise |-> Unbound,
     snr |-> Unbound, noisemap |-> Unbound, img_fv |-> Unbound,
     final_2 |-> Unbound, image_2 |-> Unbound, outcome |-> Unbound]

\* after import: rng seeded with random_seed + 1, numpy's generator seeded
\* from entropy, no call made
InitModule ==
    /\ rng = [p \in Running(layout) |-> BaseDeviate(random_seed + 1)]
    /\ np_state \in [Running(layout) -> {BaseDeviate(e) : e \in Entropy}]
    /\ ncalls = 0
    /\ pc = [i \in Invocations |-> "idle"]
    /\ args = [i \in Invocations |-> Unbound]
    /\ frame = [i \in Invocations |-> EmptyFrame]
    /\ heap = [i \in Invocations |-> <<>>]
    /\ err = [i \in Invocations |-> "none"]

Init == layout = "threads" /\ InitModule
InitProcesses == layout = "processes" /\ InitModule

\* ------------------------------------------------------------------ actions

Goto(i, line) == pc' = [pc EXCEPT ![i] = line]
Bind(i, f) == frame' = [frame EXCEPT ![i] = f]
Raise(i, e) == Goto(i, "raised") /\ err' = [err EXCEPT ![i] = e]

\* generate_image(**settings)
Call(i) ==
    /\ pc[i] \in {"idle", "done", "raised"}
    /\ ncalls < MaxCalls
    /\ \E p \in Inputs : args' = [args EXCEPT ![i] = p]
    /\ ncalls' = ncalls + 1
    /\ Goto(i, "l40")
    /\ Bind(i, EmptyFrame)
    /\ heap' = [heap EXCEPT ![i] = <<>>]
    /\ err' = [err EXCEPT ![i] = "none"]
    /\ UNCHANGED <<layout, rng, np_state>>

\* lines 40-42
Shear(i) ==
    /\ pc[i] = "l40"
    /\ Bind(i, [frame[i] EXCEPT !.g_1 = G1(args[i].gal_q, args[i].gal_beta),
                                !.g_2 = G2(args[i].gal_q, args[i].gal_beta)])
    /\ Goto(i, "l44")
    /\ UNCHANGED <<layout, rng, np_state, ncalls, args, heap, err>>

\* lines 44-48
Build(i) ==
    /\ pc[i] = "l44"
    /\ ~MustReject(args[i], frame[i].g_1, frame[i].g_2)
    /\ LET gal == ShearBy(WithFlux(Sersic(args[i].bulge_n, args[i].bulge_re), args[i].gal_flux),
                          frame[i].g_1, frame[i].g_2)
           psf == Moffat(psf_beta, 1, args[i].psf_re)
       IN  Bind(i, [frame[i] EXCEPT !.gal = gal, !.psf = psf, !.final = Convolve(psf, gal)])
    /\ Goto(i, "l49")
    /\ UNCHANGED <<layout, rng, np_state, ncalls, args, heap, err>>

\* lines 44-48, galsim raising on an argument
BuildRaise(i) ==
    /\ pc[i] = "l44"
    /\ MustReject(args[i], frame[i].g_1, frame[i].g_2)
         \/ MayReject(args[i], frame[i].g_1, frame[i].g_2)
    /\ Raise(i, "GalSimError")
    /\ UNCHANGED <<layout, rng, np_state, ncalls, args, frame, heap>>

\* lines 49-50
Draw(i) ==
    /\ pc[i] = "l49"
    /\ LET a == Alloc(heap[i], DrawImage(frame[i].final))
       IN  /\ heap' = [heap EXCEPT ![i] = a.heap]
           /\ Bind(i, [frame[i] EXCEPT !.image = a.ref])
    /\ Goto(i, "l51")
    /\ UNCHANGED <<layout, rng, np_state, ncalls, args, err>>

\* lines 49-50, galsim raising on a profile of no flux
DrawRaise(i) ==
    /\ pc[i] = "l49"
    /\ args[i].gal_flux <= 0
    /\ Raise(i, "GalSimError")
    /\ UNCHANGED <<layout, rng, np_state, ncalls, args, frame, heap>>

\* line 51
Copy(i) ==
    /\ pc[i] = "l51"
    /\ LET c == Deepcopy(heap[i], frame[i].image)
       IN  /\ heap' = [heap EXCEPT ![i] = c.heap]
           /\ Bind(i, [frame[i] EXCEPT !.image_nonoise = c.ref])
    /\ Goto(i, "l54")
    /\ UNCHANGED <<layout, rng, np_state, ncalls, args, err>>

\* line 54
Snr(i) ==
    /\ pc[i] = "l54"
    /\ Bind(i, [frame[i] EXCEPT !.snr = SignalToNoise(heap[i][frame[i].image], args[i].noise)])
    /\ Goto(i, "l56")
    /\ UNCHANGED <<layout, rng, np_state, ncalls, args, heap, err>>

\* line 56
Poisson(i) ==
    /\ pc[i] = "l56"
    /\ \E e \in Entropy :
         LET dev == PoissonNoise(rng[ProcOf(i)], e)
         IN  /\ heap' = [heap EXCEPT ![i][frame[i].image] = AddNoise(@, dev)]
             /\ rng' = IF dev = rng[ProcOf(i)]
                       THEN [rng EXCEPT ![ProcOf(i)] = Advance(@, NPixels)]
                       ELSE rng
    /\ Goto(i, "l57")
    /\ UNCHANGED <<layout, np_state, ncalls, args, frame, err>>

\* lines 57-58
NoiseMap(i) ==
    /\ pc[i] = "l57"
    /\ args[i].noise >= 0
    /\ LET a == Alloc(heap[i], Normal(np_state[ProcOf(i)], 0, args[i].noise))
       IN  /\ heap' = [heap EXCEPT ![i] = a.heap]
           /\ Bind(i, [frame[i] EXCEPT !.noisemap = a.ref])
    /\ np_state' = [np_state EXCEPT ![ProcOf(i)] = Advance(@, NPixels)]
    /\ Goto(i, "l59")
    /\ UNCHANGED <<layout, rng, ncalls, args, err>>

\* line 57, numpy raising ValueError on a negative scale
NoiseMapRaise(i) ==
    /\ pc[i] = "l57"
    /\ args[i].noise < 0
    /\ Raise(i, "ValueError")
    /\ UNCHANGED <<layout, rng, np_state, ncalls, args, frame, heap>>

\* line 59
AddBackground(i) ==
    /\ pc[i] = "l59"
    /\ LET a == Alloc(heap[i], Plus(heap[i][NoisyBase(frame[i])], heap[i][frame[i].noisemap]))
       IN  /\ heap' = [heap EXCEPT ![i] = a.heap]
           /\ Bind(i, [frame[i] EXCEPT !.img_fv = a.ref])
    /\ Goto(i, "l63")
    /\ UNCHANGED <<layout, rng, np_state, ncalls, args, err>>

\* lines 63-65
DrawPsf(i) ==
    /\ pc[i] = "l63"
    /\ LET final_2 == PsfSource(frame[i])
           a == Alloc(heap[i], DrawImage(final_2))
       IN  /\ heap' = [heap EXCEPT ![i] = a.heap]
           /\ Bind(i, [frame[i] EXCEPT !.final_2 = final_2, !.image_2 = a.ref])
    /\ Goto(i, "l67")
    /\ UNCHANGED <<layout, rng, np_state, ncalls, args, err>>

\* lines 67-75
Return(i) ==
    /\ pc[i] = "l67"
    /\ Bind(i, [frame[i] EXCEPT !.outcome =
                  [noised |-> frame[i].img_fv, psf |-> frame[i].image_2,
                   noiseless |-> frame[i].image_nonoise, snr |-> frame[i].snr,
                   g1 |-> frame[i].g_1, g2 |-> frame[i].g_2]])
    /\ Goto(i, "done")
    /\ UNCHANGED <<layout, rng, np_state, ncalls, args, heap, err>>

Next ==
    \E i \in Invocations :
        \/ Call(i)
        \/ Shear(i)
        \/ Build(i)
        \/ BuildRaise(i)
        \/ Draw(i)
        \/ DrawRaise(i)
        \/ Copy(i)
        \/ Snr(i)
        \/ Poisson(i)
        \/ NoiseMap(i)
        \/ NoiseMapRaise(i)
        \/ AddBackground(i)
        \/ DrawPsf(i)
        \/ Return(i)

Spec == Init /\ [][Next]_vars
SpecProcesses == InitProcesses /\ [][Next]_vars

\* ------------------------------------------------------------------ claims

\* what the caller of a returned call holds: the dict of lines 67-75 with its
\* arrays read through their references
Bundle(i) ==
    LET o == frame[i].outcome
    IN  [noised |-> heap[i][o.noised], psf |-> heap[i][o.psf],
         noiseless |-> heap[i][o.noiseless], snr |-> o.snr, g1 |-> o.g1, g2 |-> o.g2]

Called(i) == pc[i] # "idle"
Returned(i) == pc[i] = "done"
\* the lines after the photon-noise step of line 56
AfterPoisson == {"l57", "l59", "l63", "l67", "done"}
\* the lines at which image_nonoise is bound
AfterCopy == {"l54", "l56"} \cup AfterPoisson
\* the lines at which img_fv is bound
AfterBackground == {"l63", "l67", "done"}

InDomainQ(q) == RLess(Zero, q) /\ RLeq(q, One)
BadProfileParams(p) ==
    \/ ~InDomainQ(p.gal_q)
    \/ p.bulge_n <= 0
    \/ p.bulge_re <= 0
    \/ p.psf_re <= 0
    \/ p.gal_flux <= 0

\* s = k * t for two signal-to-noise ratios sqrt(sumsq) / noise
SnrIsTimes(s, k, t) ==
    /\ s.sumsq * t.noise * t.noise = k * k * t.sumsq * s.noise * s.noise
    /\ s.noise * t.noise >= 0

\* C1: a call with a galaxy or PSF parameter outside its domain runs no line of
\* generate_image: it stays at its entry until it has failed with
\* InvalidParameterError, leaving no local, no array and (being at no later
\* line) no generator state changed, and it returns no bundle.
C1_RejectsBadProfileParams ==
    \A i \in Invocations :
        (Called(i) /\ BadProfileParams(args[i])) =>
            \/ pc[i] = "l40"
            \/ /\ pc[i] = "raised"
               /\ err[i] = "InvalidParameterError"
               /\ frame[i] = EmptyFrame
               /\ heap[i] = <<>>

\* C2: a call with noise <= 0 fails with InvalidParameterError: it returns no
\* bundle, it is never past the photon-noise step, and the exception it
\* raises is no other one.
C2_RejectsNonPositiveNoise ==
    \A i \in Invocations :
        (Called(i) /\ args[i].noise <= 0) =>
            /\ pc[i] \notin AfterPoisson
            /\ pc[i] = "raised" => err[i] = "InvalidParameterError"

\* C3: the snr of every returned bundle is sqrt(sum of the squares of the
\* bundle's noiseless pixels) / noise.
C3_SnrFromNoiseless ==
    \A i \in Invocations :
        Returned(i) =>
            Bundle(i).snr =
                [sumsq |-> SumOver([px \in Pixels |-> Bundle(i).noiseless[px] * Bundle(i).noiseless[px]]),
                 noise |-> args[i].noise]

\* C3 witness: a returned call of finite non-zero snr whose noisy image differs
\* from its noiseless image.
C3_Witness ==
    \E i \in Invocations :
        /\ Returned(i)
        /\ args[i].noise > 0
        /\ Bundle(i).snr.sumsq > 0
        /\ Bundle(i).noised # Bundle(i).noiseless

\* C4: two returned calls with the same parameters hold the same noiseless
\* image and the same PSF image.
C4_SameParamsSameImages ==
    \A i, j \in Invocations :
        (Returned(i) /\ Returned(j) /\ args[i] = args[j]) =>
            /\ Bundle(i).noiseless = Bundle(j).noiseless
            /\ Bundle(i).psf = Bundle(j).psf

\* C4 witness: two returned calls with the same parameters, a third call made
\* besides them, whose noisy images differ.
C4_Witness ==
    /\ Returned(1) /\ Returned(2)
    /\ args[1] = args[2]
    /\ ncalls >= 3
    /\ Bundle(1).noised # Bundle(2).noised

\* C5: two processes, each freshly started and each in its first call, with the
\* same parameters, hold the same photon-noised image after line 56.
C5_PhotonNoiseReproducible ==
    (/\ layout = "processes"
     /\ ncalls = 2
     /\ pc[1] \in AfterPoisson /\ pc[2] \in AfterPoisson
     /\ args[1] = args[2]) =>
        heap[1][frame[1].image] = heap[2][frame[2].image]

\* C6 as stated: no step of an invocation running as a thread beside another
\* writes process-wide state.
C6_NoSharedMutableState ==
    [][layout = "threads" => (np_state' = np_state /\ rng' = rng)]_vars

\* C6 as amended: the only process-wide state a step writes is numpy's global
\* generator, at lines 57-58; rng and the layout are never written, and a
\* step of one invocation leaves the other's line, parameters, locals, arrays
\* and exception as they were.
C6_OnlyNumpyStateShared ==
    [][/\ rng' = rng
       /\ layout' = layout
       /\ np_state' # np_state =>
            \E i \in Invocations : pc[i] = "l57" /\ pc'[i] = "l59"
       /\ \A i, j \in Invocations :
            (i # j /\ pc'[i] # pc[i]) =>
                /\ pc'[j] = pc[j]
                /\ args'[j] = args[j]
                /\ frame'[j] = frame[j]
                /\ heap'[j] = heap[j]
                /\ err'[j] = err[j]]_vars

\* C6 witness: two threads of one process past lines 57-58 at once, their
\* background fields drawn from successive positions of the one generator.
C6_Witness ==
    /\ layout = "threads"
    /\ pc[1] = "l59" /\ pc[2] = "l59"
    /\ np_state[1].count = 2 * NPixels
    /\ heap[1][frame[1].noisemap] # heap[2][frame[2].noisemap]

\* C7: for gal_q in (0, 1] the returned g1 and g2 are A cos(2 gal_beta) and
\* A sin(2 gal_beta) with A = (1 - gal_q) / (1 + gal_q), 0 <= A < 1,
\* g1^2 + g2^2 = A^2 < 1, and both are 0 when gal_q = 1.
C7_ShearComponents ==
    \A i \in Invocations :
        (Returned(i) /\ InDomainQ(args[i].gal_q)) =>
            LET n == args[i].gal_q.num
                d == args[i].gal_q.den
                b == Bundle(i)
            IN  /\ 0 <= d - n /\ d - n < d + n
                /\ RMul(b.g1, Rat(d + n, 1)) = RMul(Rat(d - n, 1), Cos2(args[i].gal_beta))
                /\ RMul(b.g2, Rat(d + n, 1)) = RMul(Rat(d - n, 1), Sin2(args[i].gal_beta))
                /\ ShearNormSq(b.g1, b.g2) = Rat((d - n) * (d - n), (d + n) * (d + n))
                /\ RLess(ShearNormSq(b.g1, b.g2), One)
                /\ args[i].gal_q = One => (b.g1 = Zero /\ b.g2 = Zero)

\* C7 witness: a returned call with gal_q = 1 at an angle whose doubled angle
\* has non-zero cosine and sine, beside a returned call with gal_q < 1 and
\* both components non-zero.
C7_Witness ==
    \E i, j \in Invocations :
        /\ Returned(i) /\ Returned(j)
        /\ args[i].gal_q = One
        /\ Cos2(args[i].gal_beta) # Zero /\ Sin2(args[i].gal_beta) # Zero
        /\ InDomainQ(args[j].gal_q)
        /\ Bundle(j).g1 # Zero /\ Bundle(j).g2 # Zero

\* C8: two calls that agree on psf_re hold the same PSF image whatever their
\* other parameters, and the PSF image is an array of its own, none of those
\* the photon noise or the background field was written to.
C8_PsfImageFromPsfReOnly ==
    \A i, j \in Invocations :
        (pc[i] \in {"l67", "done"} /\ pc[j] \in {"l67", "done"}
         /\ args[i].psf_re = args[j].psf_re) =>
            /\ heap[i][frame[i].image_2] = heap[j][frame[j].image_2]
            /\ frame[i].image_2 \notin {frame[i].image, frame[i].noisemap, frame[i].img_fv}

\* C8 witness: two returned calls that agree on psf_re and differ in gal_flux,
\* with different noiseless images.
C8_Witness ==
    /\ Returned(1) /\ Returned(2)
    /\ args[1].psf_re = args[2].psf_re
    /\ args[1].gal_flux # args[2].gal_flux
    /\ Bundle(1).noiseless # Bundle(2).noiseless

\* C9: of two returned calls that differ only in gal_flux, one having twice the
\* other's, the first has twice the snr; of two that differ only in noise, one
\* having twice the other's, the first has half the snr.
C9_SnrScaling ==
    \A i, j \in Invocations :
        (Returned(i) /\ Returned(j)) =>
            /\ args[j] = [args[i] EXCEPT !.gal_flux = 2 * @] =>
                 SnrIsTimes(Bundle(j).snr, 2, Bundle(i).snr)
            /\ args[j] = [args[i] EXCEPT !.noise = 2 * @] =>
                 SnrIsTimes(Bundle(i).snr, 2, Bundle(j).snr)

\* C9 witness: two returned calls of non-zero snr, the second with twice the
\* noise of the first and nothing else changed.
C9_Witness ==
    /\ Returned(1) /\ Returned(2)
    /\ args[1].noise > 0
    /\ args[2] = [args[1] EXCEPT !.noise = 2 * @]
    /\ Bundle(1).snr.sumsq > 0

\* C10: from line 51 on, the noiseless image is an array other than the
\* rasterized one and holds what the renderer drew, whatever the noise steps
\* did since; and the noisy image is the photon-noised image plus the
\* background field.
C10_NoiselessIsIndependentCopy ==
    \A i \in Invocations :
        /\ pc[i] \in AfterCopy =>
            /\ frame[i].image_nonoise # frame[i].image
            /\ heap[i][frame[i].image_nonoise] = DrawImage(frame[i].final)
        /\ pc[i] \in AfterBackground =>
            heap[i][frame[i].img_fv] =
                [px \in Pixels |-> heap[i][frame[i].image][px] + heap[i][frame[i].noisemap][px]]
        /\ Returned(i) =>
            /\ Bundle(i).noiseless = DrawImage(frame[i].final)
            /\ Bundle(i).noised = heap[i][frame[i].img_fv]

\* C10 witness: a returned call whose photon-noised image differs from its
\* noiseless image and whose background field is not zero.
C10_Witness ==
    \E i \in Invocations :
        /\ Returned(i)
        /\ heap[i][frame[i].image] # Bundle(i).noiseless
        /\ \E px \in Pixels : heap[i][frame[i].noisemap][px] # 0
        /\ Bundle(i).noised # Bundle(i).noiseless

====
